---- MODULE Spec2Model ----
(***************************************************************************)
(* A state-machine model of libftpvita/ftpvita.c: the server lifecycle     *)
(* (ftpvita_init / ftpvita_fini), the accept loop (server_thread), the     *)
(* per-connection control loop (client_thread), the client registry (a     *)
(* doubly linked list guarded by client_list_mtx), the command handlers,   *)
(* the data connection, the path helpers and the device (mount) table.     *)
(*                                                                         *)
(* Threads interleave at the granularity of the blocking calls and of the  *)
(* accesses to shared state; a handler that only touches its own           *)
(* ClientInfo is one step.  Platform calls (sockets, storage) are external:*)
(* their results are inputs drawn with \E.  A field the code never         *)
(* initialises holds the token Uninit, and every use of it branches over   *)
(* the outcomes an indeterminate value can have.                           *)
(***************************************************************************)
EXTENDS Integers, Sequences, FiniteSets, TLC

\* ------------------------------------------------------------------ bounds
\* Number of ClientInfo structs the accept loop allocates in one run.
MaxClients == 2
\* Number of socket descriptors available for data connections.
MaxFds == 3
\* The transfer buffer, scaled down from 4 MiB to a few bytes.
FILE_BUF_SIZE == 2
\* The device table, scaled down from 16 slots.
MAX_DEVICES == 2

ClientIds == 1..MaxClients
Fds == 1..MaxFds
Slots == 0..(MAX_DEVICES - 1)
\* The longest payload of a transfer: it spans two buffers.
MaxPayload == FILE_BUF_SIZE + 1

\* ------------------------------------------------------------- C constants
\* The null ClientInfo pointer (client ids start at 1); also "no owner".
NULL == 0
\* An int field of a malloc'd ClientInfo that was never assigned.
UninitFd == 0
\* A negative (error) return of sceNetSocket / sceNetAccept.
BadFd == -1
\* A char array of a malloc'd ClientInfo that was never written.
UninitPath == <<"?">>
\* What get_vita_path returns for a path of length <= 1.
NullPath == <<>>

FTP_DATA_CONNECTION_NONE == "NONE"
FTP_DATA_CONNECTION_ACTIVE == "ACTIVE"
FTP_DATA_CONNECTION_PASSIVE == "PASSIVE"

\* The default working directory, "/", as a sequence of characters.
FTP_DEFAULT_PATH == <<"/">>

VARIABLES
    \* ---- globals of ftpvita.c
    ftp_initialized,   \* 0 or 1
    server_thread_pc,  \* "none", "setup", "accept", "ended"
    server_sockfd,     \* "unset", "listening", "closed"
    number_clients,
    client_list,       \* head of the registry: a client id or NULL
    client_list_mtx,   \* "free" or the holder ("fini")
    device_list,       \* slot -> [name, valid]
    \* ---- ftpvita_fini / client_list_thread_end: position and locals
    fini_pc,           \* "idle", "wait_server", "iter", "wait_client",
                       \* "thread_end_done", "returned"
    fini_it,
    fini_next,
    \* ---- one ClientInfo and one client thread per id
    cstate,            \* "unused", "live", "freed" (the malloc'd struct)
    thread,            \* "none", "running", "ended"
    pc,                \* position of client_thread
    num,
    next,
    prev,
    n_recv,            \* class of the last sceNetRecv result on the control socket
    data_con_type,
    data_sockfd,
    pasv_sockfd,
    cur_path,
    rename_path,
    list_i,            \* send_LIST: the loop index i
    \* ---- the platform
    ctrl_aborted,      \* sceNetSocketAbort was called on the control socket
    fd_owner,          \* descriptor -> the session whose data socket it is, or NULL
    files,             \* native path -> [exists, data]
    \* ---- what a session's peer observes
    log,               \* replies and I/O events of the command being handled
    wire,              \* bytes (or LIST entries) sent on the data connection by it
    \* ---- history
    fini_all_blocked,  \* at ftpvita_fini's start every client thread was blocked in recv
    fini_reads,        \* client_list_thread_end: the data connection fields of `it`
                       \* it read in the last iteration, and the values it read
    dev_call,          \* the last ftpvita_add_device / ftpvita_del_device call: its
                       \* name, its return value and the table it found
    init_ret,          \* what the last ftpvita_init call returned: "ok" (0),
                       \* "already" (-1), "net_error" (the negative result of a
                       \* network call), or "none" before the first call
    list_seen,         \* send_LIST: the name slot i held when its valid flag was read
    stored,            \* native path -> the payload of the last clean STOR, if any
    staged,            \* a successful RNFR has not been consumed by an RNTO yet
    rnto_staged,       \* the value of staged when the last RNTO started
    nav                \* CWD descents and CDUPs since the path was last set to "/"

lifeVars == <<ftp_initialized, server_thread_pc, server_sockfd, number_clients,
              client_list, client_list_mtx, fini_pc, fini_it, fini_next,
              fini_all_blocked, fini_reads, dev_call, init_ret>>
regVars == <<cstate, thread, pc, num, next, prev, n_recv, ctrl_aborted>>
chanVars == <<data_con_type, data_sockfd, pasv_sockfd, fd_owner>>
pathVars == <<cur_path, nav>>
fileVars == <<files, stored, rename_path, staged, rnto_staged>>
mountVars == <<device_list, list_i, list_seen>>
obsVars == <<log, wire>>

\* Everything a session's commands work on.
sessVars == <<chanVars, pathVars, fileVars, mountVars, obsVars>>

vars == <<lifeVars, regVars, sessVars>>

\* -------------------------------------------------------- paths and files
\* The file arguments of the transfer and rename commands: "/m:/f", "/m:/g".
PathF == <<"/", "m", ":", "/", "f">>
PathG == <<"/", "m", ":", "/", "g">>
FileArgs == {PathF, PathG}

\* get_vita_path: strip the leading '/', or NULL for a path of length <= 1.
get_vita_path(path) == IF Len(path) > 1 THEN Tail(path) ELSE NullPath

\* gen_filepath: an argument starting with '/' is the full path, any other is
\* appended to cur_path after a '/'.
gen_filepath(cur, cmd_path) ==
    IF cmd_path[1] = "/" THEN cmd_path ELSE cur \o <<"/">> \o cmd_path

NativePaths == {get_vita_path(a) : a \in FileArgs}
NoFile == [exists |-> FALSE, data |-> <<>>]
File(d) == [exists |-> TRUE, data |-> d]

\* No ftpvita_add_device or ftpvita_del_device call was made yet.
NoCall == [op |-> "none", name |-> <<>>, ret |-> 0,
           was |-> [i \in Slots |-> [name |-> <<>>, valid |-> 0]]]

\* ------------------------------------------------------------------- Init
\* The static initialisers of ftpvita.c: nothing initialised, no clients, an
\* empty device table; the storage holds none of the files.
Init ==
    /\ ftp_initialized = 0
    /\ server_thread_pc = "none"
    /\ server_sockfd = "unset"
    /\ number_clients = 0
    /\ client_list = NULL
    /\ client_list_mtx = "free"
    /\ device_list = [i \in Slots |-> [name |-> <<>>, valid |-> 0]]
    /\ fini_pc = "idle"
    /\ fini_it = NULL
    /\ fini_next = NULL
    /\ cstate = [c \in ClientIds |-> "unused"]
    /\ thread = [c \in ClientIds |-> "none"]
    /\ pc = [c \in ClientIds |-> "none"]
    /\ num = [c \in ClientIds |-> 0]
    /\ next = [c \in ClientIds |-> NULL]
    /\ prev = [c \in ClientIds |-> NULL]
    /\ n_recv = [c \in ClientIds |-> "none"]
    /\ data_con_type = [c \in ClientIds |-> FTP_DATA_CONNECTION_NONE]
    /\ data_sockfd = [c \in ClientIds |-> UninitFd]
    /\ pasv_sockfd = [c \in ClientIds |-> UninitFd]
    /\ cur_path = [c \in ClientIds |-> UninitPath]
    /\ rename_path = [c \in ClientIds |-> UninitPath]
    /\ list_i = [c \in ClientIds |-> 0]
    /\ ctrl_aborted = [c \in ClientIds |-> FALSE]
    /\ fd_owner = [f \in Fds |-> NULL]
    /\ files = [p \in NativePaths |-> NoFile]
    /\ log = [c \in ClientIds |-> <<>>]
    /\ wire = [c \in ClientIds |-> <<>>]
    /\ fini_all_blocked = FALSE
    /\ fini_reads = {}
    /\ dev_call = NoCall
    /\ init_ret = "none"
    /\ list_seen = [c \in ClientIds |-> <<>>]
    /\ stored = [p \in NativePaths |-> NoFile]
    /\ staged = [c \in ClientIds |-> FALSE]
    /\ rnto_staged = [c \in ClientIds |-> FALSE]
    /\ nav = [c \in ClientIds |-> [downs |-> 0, ups |-> 0, ok |-> FALSE, simple |-> TRUE]]

\* ======================================================= data connection
FreeFds(owner) == {f \in Fds : owner[f] = NULL}

\* sceNetSocketClose(fd).  A descriptor of no open socket closes nothing; an
\* indeterminate one may name any open data socket, or none.
CloseOutcomes(owner, fd) ==
    IF fd = UninitFd
    THEN {owner} \cup {[owner EXCEPT ![f] = NULL] : f \in Fds \ FreeFds(owner)}
    ELSE IF fd \in Fds THEN {[owner EXCEPT ![fd] = NULL]} ELSE {owner}

\* client_close_data_connection, the sockets: close data_sockfd and, in
\* passive mode, pasv_sockfd.
CloseDataOutcomes(owner, type, dfd, pfd) ==
    IF type = FTP_DATA_CONNECTION_PASSIVE
    THEN UNION {CloseOutcomes(o, pfd) : o \in CloseOutcomes(owner, dfd)}
    ELSE CloseOutcomes(owner, dfd)

\* sceNetSocket: the lowest descriptor that is free, or an error when none is
\* left.
LowestFree(owner) == CHOOSE f \in FreeFds(owner) : \A g \in FreeFds(owner) : f <= g

SocketOutcomes(owner, c) ==
    IF FreeFds(owner) = {}
    THEN {[fd |-> BadFd, owner |-> owner]}
    ELSE {[fd |-> LowestFree(owner), owner |-> [owner EXCEPT ![LowestFree(owner)] = c]]}

IsOpen(owner, fd) == fd \in Fds /\ owner[fd] # NULL

\* client_open_data_connection.  Active: sceNetConnect on data_sockfd, result
\* ignored.  Any other mode: pasv_sockfd = sceNetAccept(data_sockfd), which
\* fails on a descriptor that is not an open socket.  conn_ok is whether the
\* peer's end of the connection comes about.  usable: the descriptor the
\* transfer then streams on is a connected socket.
OpenDataOutcomes(owner, type, dfd, pfd, c, conn_ok) ==
    IF type = FTP_DATA_CONNECTION_ACTIVE
    THEN {[owner |-> owner, pasv |-> pfd, usable |-> conn_ok /\ IsOpen(owner, dfd)]}
    ELSE IF conn_ok /\ IsOpen(owner, dfd) /\ FreeFds(owner) # {}
         THEN {[owner |-> o.owner, pasv |-> o.fd, usable |-> TRUE] :
                  o \in SocketOutcomes(owner, c)}
         ELSE {[owner |-> owner, pasv |-> BadFd, usable |-> FALSE]}

\* ============================================================== registry
\* client_list_add: push the client at the front of the list.  The critical
\* section does not block, so lock .. unlock is one step that needs the mutex.
client_list_add(c) ==
    /\ client_list_mtx = "free"
    /\ next' = [next EXCEPT ![c] = client_list]
    /\ prev' = IF client_list = NULL
               THEN [prev EXCEPT ![c] = NULL]
               ELSE [prev EXCEPT ![c] = NULL, ![client_list] = c]
    /\ client_list' = c
    /\ number_clients' = number_clients + 1

\* A client_list_delete that does not move the head of the list.
client_list_delete_KeepsHead(c) ==
    /\ pc[c] = "delete"
    /\ client_list_mtx = "free"
    /\ next' = IF prev[c] # NULL THEN [next EXCEPT ![prev[c]] = next[c]] ELSE next
    /\ prev' = IF next[c] # NULL THEN [prev EXCEPT ![next[c]] = prev[c]] ELSE prev
    /\ number_clients' = number_clients - 1
    /\ pc' = [pc EXCEPT ![c] = "close"]
    /\ UNCHANGED <<ftp_initialized, server_thread_pc, server_sockfd, client_list_mtx,
                   client_list, fini_pc, fini_it, fini_next, fini_all_blocked,
                   fini_reads, dev_call, init_ret>>
    /\ UNCHANGED <<cstate, thread, num, n_recv, ctrl_aborted, sessVars>>

\* client_list_delete: unlink the client.  The thread stays at "delete" until
\* sceKernelLockMutex succeeds.
client_list_delete(c) ==
    /\ pc[c] = "delete"
    /\ client_list_mtx = "free"
    /\ next' = IF prev[c] # NULL THEN [next EXCEPT ![prev[c]] = next[c]] ELSE next
    /\ prev' = IF next[c] # NULL THEN [prev EXCEPT ![next[c]] = prev[c]] ELSE prev
    /\ client_list' = IF c = client_list THEN next[c] ELSE client_list
    /\ number_clients' = number_clients - 1
    /\ pc' = [pc EXCEPT ![c] = "close"]
    /\ UNCHANGED <<ftp_initialized, server_thread_pc, server_sockfd, client_list_mtx,
                   fini_pc, fini_it, fini_next, fini_all_blocked,
                   fini_reads, dev_call, init_ret>>
    /\ UNCHANGED <<cstate, thread, num, n_recv, ctrl_aborted, sessVars>>

\* ============================================================ server loop
\* ftpvita_init called while ftp_initialized is set: return -1.
ftpvita_init_initialized ==
    /\ fini_pc \in {"idle", "returned"}
    /\ ftp_initialized # 0
    /\ init_ret' = "already"
    /\ UNCHANGED <<ftp_initialized, server_thread_pc, server_sockfd, number_clients,
                   client_list, client_list_mtx, fini_pc, fini_it, fini_next,
                   fini_all_blocked, fini_reads, dev_call>>
    /\ UNCHANGED <<regVars, sessVars>>

\* ftpvita_init, a network call failed (sceNetShowNetstat, sceNetInit,
\* sceNetCtlInit or sceNetCtlInetGetInfo): undo the network set-up and return
\* the error, before the server thread and the mutex are created.
ftpvita_init_failed ==
    /\ fini_pc \in {"idle", "returned"}
    /\ ftp_initialized = 0
    /\ init_ret' = "net_error"
    /\ UNCHANGED <<ftp_initialized, server_thread_pc, server_sockfd, number_clients,
                   client_list, client_list_mtx, fini_pc, fini_it, fini_next,
                   fini_all_blocked, fini_reads, dev_call>>
    /\ UNCHANGED <<regVars, sessVars>>

\* ftpvita_init, success path: create the server thread and the mutex, start
\* the thread, set ftp_initialized, return 0.
ftpvita_init ==
    /\ fini_pc \in {"idle", "returned"}
    /\ ftp_initialized = 0
    /\ ftp_initialized' = 1
    /\ server_thread_pc' = "setup"
    /\ client_list_mtx' = "free"
    /\ fini_pc' = "idle"
    /\ device_list' = [i \in Slots |-> [device_list[i] EXCEPT !.valid = 0]]
    /\ init_ret' = "ok"
    /\ UNCHANGED <<server_sockfd, number_clients, client_list, fini_it, fini_next,
                   fini_all_blocked, fini_reads, dev_call>>
    /\ UNCHANGED <<regVars, chanVars, pathVars, fileVars, list_i, list_seen, obsVars>>

\* server_thread up to its loop: create, bind and listen on server_sockfd.
server_thread_setup ==
    /\ server_thread_pc = "setup"
    /\ server_sockfd' = "listening"
    /\ server_thread_pc' = "accept"
    /\ UNCHANGED <<ftp_initialized, number_clients, client_list, client_list_mtx,
                   fini_pc, fini_it, fini_next, fini_all_blocked,
                   fini_reads, dev_call, init_ret>>
    /\ UNCHANGED <<regVars, sessVars>>

\* The next ClientInfo malloc returns: ids are handed out in order.
FreshClient(c) == cstate[c] = "unused" /\ \A d \in ClientIds : d < c => cstate[d] # "unused"

\* server_thread, sceNetAccept returned a socket: create the thread, fill the
\* ClientInfo, add it to the list, start the thread.
server_thread_accept(c) ==
    /\ server_thread_pc = "accept"
    /\ server_sockfd = "listening"
    /\ FreshClient(c)
    /\ cstate' = [cstate EXCEPT ![c] = "live"]
    /\ num' = [num EXCEPT ![c] = number_clients]
    /\ client_list_add(c)
    /\ thread' = [thread EXCEPT ![c] = "running"]
    /\ pc' = [pc EXCEPT ![c] = "greet"]
    /\ data_con_type' = [data_con_type EXCEPT ![c] = FTP_DATA_CONNECTION_NONE]
    /\ cur_path' = [cur_path EXCEPT ![c] = FTP_DEFAULT_PATH]
    /\ nav' = [nav EXCEPT ![c] = [downs |-> 0, ups |-> 0, ok |-> TRUE, simple |-> TRUE]]
    /\ UNCHANGED <<ftp_initialized, server_thread_pc, server_sockfd, client_list_mtx,
                   fini_pc, fini_it, fini_next, fini_all_blocked,
                   fini_reads, dev_call, init_ret>>
    /\ UNCHANGED <<n_recv, ctrl_aborted, data_sockfd, pasv_sockfd, fd_owner,
                   fileVars, mountVars, obsVars>>

\* server_thread, sceNetAccept failed: leave the loop and exit.
server_thread_exit ==
    /\ server_thread_pc = "accept"
    /\ server_sockfd = "closed"
    /\ server_thread_pc' = "ended"
    /\ UNCHANGED <<ftp_initialized, server_sockfd, number_clients, client_list,
                   client_list_mtx, fini_pc, fini_it, fini_next, fini_all_blocked,
                   fini_reads, dev_call, init_ret>>
    /\ UNCHANGED <<regVars, sessVars>>

\* server_thread, sceNetAccept failed on the listening socket for a reason
\* other than its being closed: the same else branch, leave the loop and exit.
server_thread_accept_error ==
    /\ server_thread_pc = "accept"
    /\ server_sockfd = "listening"
    /\ server_thread_pc' = "ended"
    /\ UNCHANGED <<ftp_initialized, server_sockfd, number_clients, client_list,
                   client_list_mtx, fini_pc, fini_it, fini_next, fini_all_blocked,
                   fini_reads, dev_call, init_ret>>
    /\ UNCHANGED <<regVars, sessVars>>

\* ========================================================== control loop
\* client_thread before its loop: the greeting.
client_thread_greet(c) ==
    /\ pc[c] = "greet"
    /\ log' = [log EXCEPT ![c] = <<"220">>]
    /\ pc' = [pc EXCEPT ![c] = "recv"]
    /\ UNCHANGED <<lifeVars, cstate, thread, num, next, prev, n_recv, ctrl_aborted>>
    /\ UNCHANGED <<chanVars, pathVars, fileVars, mountVars, wire>>

\* A command line arrived (n_recv > 0) on a socket that is not aborted.
Receiving(c) == pc[c] = "recv" /\ ~ctrl_aborted[c]

cmd_NOOP_func(c) ==
    /\ Receiving(c)
    /\ n_recv' = [n_recv EXCEPT ![c] = "data"]
    /\ log' = [log EXCEPT ![c] = <<"200">>]
    /\ UNCHANGED <<lifeVars, cstate, thread, pc, num, next, prev, ctrl_aborted>>
    /\ UNCHANGED <<chanVars, pathVars, fileVars, mountVars, wire>>

\* A client_thread that on n_recv == 0 leaves the loop without
\* client_list_delete.
client_thread_recv_closed_NoDelete(c) ==
    /\ Receiving(c)
    /\ n_recv' = [n_recv EXCEPT ![c] = "zero"]
    /\ pc' = [pc EXCEPT ![c] = "close"]
    /\ UNCHANGED <<lifeVars, cstate, thread, num, next, prev, ctrl_aborted, sessVars>>

\* n_recv == 0: the peer closed the connection; the thread goes on to
\* client_list_delete.
client_thread_recv_closed(c) ==
    /\ Receiving(c)
    /\ n_recv' = [n_recv EXCEPT ![c] = "zero"]
    /\ pc' = [pc EXCEPT ![c] = "delete"]
    /\ UNCHANGED <<lifeVars, cstate, thread, num, next, prev, ctrl_aborted, sessVars>>

\* n_recv < 0 and not SCE_NET_ERROR_EINTR: also client_list_delete.
client_thread_recv_error(c) ==
    /\ Receiving(c)
    /\ n_recv' = [n_recv EXCEPT ![c] = "error"]
    /\ pc' = [pc EXCEPT ![c] = "delete"]
    /\ UNCHANGED <<lifeVars, cstate, thread, num, next, prev, ctrl_aborted, sessVars>>

\* n_recv == SCE_NET_ERROR_EINTR: the socket was aborted; break without
\* client_list_delete.
client_thread_recv_aborted(c) ==
    /\ pc[c] = "recv"
    /\ ctrl_aborted[c]
    /\ n_recv' = [n_recv EXCEPT ![c] = "eintr"]
    /\ pc' = [pc EXCEPT ![c] = "close"]
    /\ UNCHANGED <<lifeVars, cstate, thread, num, next, prev, ctrl_aborted, sessVars>>

\* After the loop: close the control socket and an open data connection.
client_thread_close(c) ==
    /\ pc[c] = "close"
    /\ pc' = [pc EXCEPT ![c] = "free"]
    /\ fd_owner' \in
          IF data_con_type[c] # FTP_DATA_CONNECTION_NONE
          THEN CloseDataOutcomes(fd_owner, data_con_type[c], data_sockfd[c], pasv_sockfd[c])
          ELSE {fd_owner}
    /\ UNCHANGED <<lifeVars, cstate, thread, num, next, prev, n_recv, ctrl_aborted>>
    /\ UNCHANGED <<data_con_type, data_sockfd, pasv_sockfd, pathVars, fileVars,
                   mountVars, obsVars>>

\* free(client); sceKernelExitDeleteThread(0).
client_thread_exit(c) ==
    /\ pc[c] = "free"
    /\ cstate' = [cstate EXCEPT ![c] = "freed"]
    /\ thread' = [thread EXCEPT ![c] = "ended"]
    /\ pc' = [pc EXCEPT ![c] = "done"]
    /\ UNCHANGED <<lifeVars, num, next, prev, n_recv, ctrl_aborted, sessVars>>

\* ============================================================== handlers
\* What every handler has in common: client_thread received a command line
\* (n_recv > 0), looked the verb up and called the handler.
Dispatch(c) ==
    /\ Receiving(c)
    /\ n_recv' = [n_recv EXCEPT ![c] = "data"]
    /\ UNCHANGED <<lifeVars, cstate, thread, num, next, prev, ctrl_aborted>>

\* cmd_PASV_func: a new listening socket in data_sockfd (the old value is
\* overwritten, not closed), reply 227, type passive.
cmd_PASV_func(c) ==
    /\ Dispatch(c)
    /\ \E o \in SocketOutcomes(fd_owner, c) :
          /\ data_sockfd' = [data_sockfd EXCEPT ![c] = o.fd]
          /\ fd_owner' = o.owner
    /\ data_con_type' = [data_con_type EXCEPT ![c] = FTP_DATA_CONNECTION_PASSIVE]
    /\ log' = [log EXCEPT ![c] = <<"PASV", "227">>]
    /\ UNCHANGED <<pc, pasv_sockfd, pathVars, fileVars, mountVars, wire>>

\* cmd_PORT_func: a new socket in data_sockfd (the old value is overwritten,
\* not closed), type active, reply 200.
cmd_PORT_func(c) ==
    /\ Dispatch(c)
    /\ \E o \in SocketOutcomes(fd_owner, c) :
          /\ data_sockfd' = [data_sockfd EXCEPT ![c] = o.fd]
          /\ fd_owner' = o.owner
    /\ data_con_type' = [data_con_type EXCEPT ![c] = FTP_DATA_CONNECTION_ACTIVE]
    /\ log' = [log EXCEPT ![c] = <<"PORT", "200">>]
    /\ UNCHANGED <<pc, pasv_sockfd, pathVars, fileVars, mountVars, wire>>

\* ------------------------------------------------------------- transfers
Min(a, b) == IF a < b THEN a ELSE b

\* A negative (error) return of sceNetRecv.
NetError == -1

\* The bytes of a payload are numbered, so that loss, duplication and
\* reordering show: bytes off+1 .. off+n.
Bytes(off, n) == [j \in 1..n |-> off + j]

\* The ways a payload of n bytes arrives in receives of at most
\* FILE_BUF_SIZE bytes.
Chunkings[n \in 0..MaxPayload] ==
    IF n = 0 THEN {<<>>}
    ELSE UNION {{<<k>> \o s : s \in Chunkings[n - k]} : k \in 1..Min(FILE_BUF_SIZE, n)}

\* The results of the successive client_recv_data_raw calls of one transfer:
\* byte counts, then 0 (the peer closed) or an error.
StreamsOf(lens) ==
    {s \o <<e>> : s \in UNION {Chunkings[n] : n \in lens}, e \in {0, NetError}}
Streams == StreamsOf(0..MaxPayload)

RECURSIVE RecvLoop(_, _, _, _, _)
\* receive_file / append_file: while ((bytes_recv = recv(..)) > 0) write(..).
\* The result of sceIoWrite is ignored; write number wfail fails and stores
\* nothing.  Yields the file's data, the last bytes_recv and the number of
\* bytes the peer sent.
RecvLoop(stream, i, off, data, wfail) ==
    IF stream[i] > 0
    THEN RecvLoop(stream, i + 1, off + stream[i],
                  IF i = wfail THEN data ELSE data \o Bytes(off, stream[i]), wfail)
    ELSE [data |-> data, bytes_recv |-> stream[i], total |-> off]

\* A send_file that stops after its first read.
ReadLoop_FirstChunk(data, pos, sent) ==
    SubSeq(data, 1, Min(FILE_BUF_SIZE, Len(data)))

RECURSIVE ReadLoop(_, _, _)
\* send_file: while ((bytes_read = sceIoRead(fd, buffer, FILE_BUF_SIZE)) > 0)
\* send bytes_read bytes.  Yields what was handed to client_send_data_raw.
ReadLoop(data, pos, sent) ==
    IF Min(FILE_BUF_SIZE, Len(data) - pos) > 0
    THEN ReadLoop(data, pos + Min(FILE_BUF_SIZE, Len(data) - pos),
                  sent \o SubSeq(data, pos + 1, pos + Min(FILE_BUF_SIZE, Len(data) - pos)))
    ELSE sent

\* The events of the receive loop: it ran, a write failed in it, it ended on
\* a receive error.
StreamEvents(stream, wfail) ==
    <<"stream">> \o (IF wfail \in 1..(Len(stream) - 1) THEN <<"write_err">> ELSE <<>>)
                 \o (IF stream[Len(stream)] < 0 THEN <<"recv_err">> ELSE <<>>)

\* The tail of receive_file and append_file after the loop: 226 on a clean
\* end of stream, else sceIoRemove and 426.
RecvTail(bytes_recv) ==
    IF bytes_recv = 0 THEN <<"fclose", "226">> ELSE <<"fclose", "remove", "426">>

\* receive_file and append_file differ in the open flags: truncate, or keep
\* the data and seek to its end.  open_ok, malloc_ok, conn_ok are the
\* results of sceIoOpen, malloc and of the peer's connecting; stream and
\* wfail are the results of the receives and writes.
store_file(c, verb, path, append, open_ok, malloc_ok, conn_ok, stream, wfail) ==
    LET old == IF append /\ files[path].exists THEN files[path].data ELSE <<>>
    IN
    IF ~(open_ok /\ path # NullPath)
    THEN /\ log' = [log EXCEPT ![c] = <<verb, "550">>]
         /\ UNCHANGED <<chanVars, files, stored>>
    ELSE IF ~malloc_ok
    THEN /\ log' = [log EXCEPT ![c] = <<verb, "550">>]
         /\ files' = [files EXCEPT ![path] = File(old)]
         /\ stored' = IF append THEN stored ELSE [stored EXCEPT ![path] = NoFile]
         /\ UNCHANGED chanVars
    ELSE \E od \in OpenDataOutcomes(fd_owner, data_con_type[c], data_sockfd[c],
                                    pasv_sockfd[c], c, conn_ok) :
         LET st == IF od.usable THEN stream ELSE <<NetError>>
             wf == IF od.usable THEN wfail ELSE 0
             res == RecvLoop(st, 1, 0, old, wf)
             clean == res.bytes_recv = 0 /\ wf = 0
         IN
         /\ files' = [files EXCEPT ![path] =
                        IF res.bytes_recv = 0 THEN File(res.data) ELSE NoFile]
         /\ stored' = [stored EXCEPT ![path] =
                        IF clean /\ ~append THEN File(Bytes(0, res.total)) ELSE NoFile]
         /\ log' = [log EXCEPT ![c] =
                        <<verb, "open">> \o (IF od.usable THEN <<>> ELSE <<"conn_err">>)
                        \o <<"150">> \o StreamEvents(st, wf)
                        \o RecvTail(res.bytes_recv) \o <<"close">>]
         /\ fd_owner' \in CloseDataOutcomes(od.owner, data_con_type[c],
                                            data_sockfd[c], od.pasv)
         /\ pasv_sockfd' = [pasv_sockfd EXCEPT ![c] = od.pasv]
         /\ data_con_type' = [data_con_type EXCEPT ![c] = FTP_DATA_CONNECTION_NONE]
         /\ UNCHANGED data_sockfd

\* The model keeps files no longer than MaxPayload: an append that would grow
\* the file past that is left out.
FitsAfter(path, stream) ==
    path = NullPath \/
    Len(files[path].data) + RecvLoop(stream, 1, 0, <<>>, 0).total <= MaxPayload

receive_file(c, path, open_ok, malloc_ok, conn_ok, stream, wfail) ==
    store_file(c, "STOR", path, FALSE, open_ok, malloc_ok, conn_ok, stream, wfail)

append_file(c, path, open_ok, malloc_ok, conn_ok, stream, wfail) ==
    store_file(c, "APPE", path, TRUE, open_ok, malloc_ok, conn_ok, stream, wfail)

cmd_STOR_func(c, arg, open_ok, malloc_ok, conn_ok, stream, wfail) ==
    /\ Dispatch(c)
    /\ wfail \in 0..(Len(stream) - 1)
    /\ receive_file(c, get_vita_path(gen_filepath(cur_path[c], arg)),
                    open_ok, malloc_ok, conn_ok, stream, wfail)
    /\ UNCHANGED <<pc, pathVars, rename_path, staged, rnto_staged, mountVars, wire>>

cmd_APPE_func(c, arg, open_ok, malloc_ok, conn_ok, stream, wfail) ==
    /\ Dispatch(c)
    /\ wfail \in 0..(Len(stream) - 1)
    /\ FitsAfter(get_vita_path(gen_filepath(cur_path[c], arg)), stream)
    /\ append_file(c, get_vita_path(gen_filepath(cur_path[c], arg)),
                   open_ok, malloc_ok, conn_ok, stream, wfail)
    /\ UNCHANGED <<pc, pathVars, rename_path, staged, rnto_staged, mountVars, wire>>

\* A negative (error) return of sceIoRead.
IoError == -1

\* The value of an int once it is held in an unsigned int of 32 bits, as
\* bytes_read of send_file is: its two halves of 16 bits.
U32(x) == [hi |-> (x \div 65536) % 65536, lo |-> x % 65536]

\* u > 0 for an unsigned u.
Positive(u) == u.hi > 0 \/ u.lo > 0

\* send_file: unsigned int bytes_read = sceIoRead(...).
BytesRead(ret) == U32(ret)

\* The number of sceIoRead calls that stream a file to its end: one for each
\* buffer and the one that returns 0.
ReadCalls(data) == (Len(data) + FILE_BUF_SIZE - 1) \div FILE_BUF_SIZE + 1

\* send_file: open the file; 550 when that fails or malloc does; else open
\* the data connection, 150, stream, close the file, 226, close the data
\* connection.  rfail is the number of the sceIoRead call that returns
\* IoError, 0 for none.  The loop goes on while bytes_read > 0, and sends
\* bytes_read bytes: when the value of the failed read counts as positive
\* the handler has sent for it and is in the loop still.
send_file(c, path, open_ok, malloc_ok, conn_ok, rfail) ==
    IF ~(open_ok /\ path # NullPath /\ files[path].exists)
    THEN /\ log' = [log EXCEPT ![c] = <<"RETR", "550">>]
         /\ UNCHANGED <<pc, chanVars, wire>>
    ELSE IF ~malloc_ok
    THEN /\ log' = [log EXCEPT ![c] = <<"RETR", "550">>]
         /\ UNCHANGED <<pc, chanVars, wire>>
    ELSE \E od \in OpenDataOutcomes(fd_owner, data_con_type[c], data_sockfd[c],
                                    pasv_sockfd[c], c, conn_ok) :
         LET head == <<"RETR", "open">> \o (IF od.usable THEN <<>> ELSE <<"conn_err">>)
                     \o <<"150">>
             before == SubSeq(files[path].data, 1,
                              Min(Len(files[path].data), (rfail - 1) * FILE_BUF_SIZE))
         IN
         /\ rfail <= ReadCalls(files[path].data)
         /\ pasv_sockfd' = [pasv_sockfd EXCEPT ![c] = od.pasv]
         /\ UNCHANGED data_sockfd
         /\ IF rfail = 0
            THEN /\ wire' = [wire EXCEPT ![c] = ReadLoop(files[path].data, 0, <<>>)]
                 /\ log' = [log EXCEPT ![c] =
                                head \o <<"stream", "fclose", "226", "close">>]
                 /\ fd_owner' \in CloseDataOutcomes(od.owner, data_con_type[c],
                                                    data_sockfd[c], od.pasv)
                 /\ data_con_type' =
                        [data_con_type EXCEPT ![c] = FTP_DATA_CONNECTION_NONE]
                 /\ UNCHANGED pc
            ELSE IF Positive(BytesRead(IoError))
            THEN /\ wire' = [wire EXCEPT ![c] = ReadLoop(before, 0, <<>>)]
                 /\ log' = [log EXCEPT ![c] =
                                head \o (IF rfail > 1 THEN <<"stream">> ELSE <<>>)
                                \o <<"read_error", "send">>]
                 /\ fd_owner' = od.owner
                 /\ pc' = [pc EXCEPT ![c] = "read_loop"]
                 /\ UNCHANGED data_con_type
            ELSE /\ wire' = [wire EXCEPT ![c] = ReadLoop(before, 0, <<>>)]
                 /\ log' = [log EXCEPT ![c] =
                                head \o (IF rfail > 1 THEN <<"stream">> ELSE <<>>)
                                \o <<"read_error", "fclose", "226", "close">>]
                 /\ fd_owner' \in CloseDataOutcomes(od.owner, data_con_type[c],
                                                    data_sockfd[c], od.pasv)
                 /\ data_con_type' =
                        [data_con_type EXCEPT ![c] = FTP_DATA_CONNECTION_NONE]
                 /\ UNCHANGED pc

cmd_RETR_func(c, arg, open_ok, malloc_ok, conn_ok, rfail) ==
    /\ Dispatch(c)
    /\ send_file(c, get_vita_path(gen_filepath(cur_path[c], arg)),
                 open_ok, malloc_ok, conn_ok, rfail)
    /\ UNCHANGED <<pathVars, fileVars, mountVars>>

\* send_file, one more turn of its loop after a failed read was taken for a
\* byte count: ret is what the next sceIoRead returns, IoError again or 0.
\* On 0 the loop ends: close the file, 226, close the data connection.
send_file_read(c, ret) ==
    /\ pc[c] = "read_loop"
    /\ IF Positive(BytesRead(ret))
       THEN UNCHANGED <<pc, chanVars, log>>
       ELSE /\ log' = [log EXCEPT ![c] = log[c] \o <<"fclose", "226", "close">>]
            /\ fd_owner' \in CloseDataOutcomes(fd_owner, data_con_type[c],
                                               data_sockfd[c], pasv_sockfd[c])
            /\ data_con_type' = [data_con_type EXCEPT ![c] = FTP_DATA_CONNECTION_NONE]
            /\ pc' = [pc EXCEPT ![c] = "recv"]
            /\ UNCHANGED <<data_sockfd, pasv_sockfd>>
    /\ UNCHANGED <<lifeVars, cstate, thread, num, next, prev, n_recv, ctrl_aborted>>
    /\ UNCHANGED <<pathVars, fileVars, mountVars, wire>>

\* ---------------------------------------------------------------- LIST
\* The arguments of LIST: none (NullPath), "/", and a directory "/m:/".
PathRoot == <<"/">>
PathM == <<"/", "m", ":", "/">>
ListArgs == {NullPath, PathRoot, PathM}

\* What one line of a directory listing stands for.
DirEntry == <<"entry">>

\* cmd_LIST_func and send_LIST up to its loop.  Without an argument the
\* current path is listed.  A path other than "/" is opened first (550 when
\* that fails) and its entries are streamed here, since nothing of it is
\* shared; for "/" the loop over device_list runs in steps of its own.
cmd_LIST_func(c, arg, dopen_ok, conn_ok) ==
    LET path == IF arg = NullPath THEN cur_path[c] ELSE arg
        send_devices == path = PathRoot
    IN
    /\ Dispatch(c)
    /\ IF ~send_devices /\ ~dopen_ok
       THEN /\ log' = [log EXCEPT ![c] = <<"LIST", "550">>]
            /\ UNCHANGED <<pc, chanVars, wire, list_i>>
       ELSE \E od \in OpenDataOutcomes(fd_owner, data_con_type[c], data_sockfd[c],
                                       pasv_sockfd[c], c, conn_ok) :
            /\ pasv_sockfd' = [pasv_sockfd EXCEPT ![c] = od.pasv]
            /\ UNCHANGED data_sockfd
            /\ IF send_devices
               THEN /\ log' = [log EXCEPT ![c] =
                          <<"LIST", "150", "open">>
                          \o (IF od.usable THEN <<>> ELSE <<"conn_err">>)]
                    /\ wire' = [wire EXCEPT ![c] = <<>>]
                    /\ list_i' = [list_i EXCEPT ![c] = 0]
                    /\ pc' = [pc EXCEPT ![c] = "list_check"]
                    /\ fd_owner' = od.owner
                    /\ UNCHANGED data_con_type
               ELSE /\ log' = [log EXCEPT ![c] =
                          <<"LIST", "150", "open">>
                          \o (IF od.usable THEN <<>> ELSE <<"conn_err">>)
                          \o <<"stream", "dclose", "close", "226">>]
                    /\ wire' = [wire EXCEPT ![c] = <<DirEntry>>]
                    /\ fd_owner' \in CloseDataOutcomes(od.owner, data_con_type[c],
                                                       data_sockfd[c], od.pasv)
                    /\ data_con_type' =
                          [data_con_type EXCEPT ![c] = FTP_DATA_CONNECTION_NONE]
                    /\ UNCHANGED <<pc, list_i>>
    /\ UNCHANGED <<pathVars, fileVars, device_list, list_seen>>

\* send_LIST, the loop head and "if (device_list[i].valid)": read the flag of
\* slot i.  After the last slot: close the data connection, reply 226.
send_LIST_check(c) ==
    /\ pc[c] = "list_check"
    /\ IF list_i[c] < MAX_DEVICES
       THEN /\ IF device_list[list_i[c]].valid = 1
               THEN /\ pc' = [pc EXCEPT ![c] = "list_emit"]
                    /\ list_seen' = [list_seen EXCEPT ![c] = device_list[list_i[c]].name]
                    /\ UNCHANGED list_i
               ELSE /\ list_i' = [list_i EXCEPT ![c] = list_i[c] + 1]
                    /\ UNCHANGED <<pc, list_seen>>
            /\ UNCHANGED <<chanVars, log>>
       ELSE /\ fd_owner' \in CloseDataOutcomes(fd_owner, data_con_type[c],
                                               data_sockfd[c], pasv_sockfd[c])
            /\ data_con_type' = [data_con_type EXCEPT ![c] = FTP_DATA_CONNECTION_NONE]
            /\ log' = [log EXCEPT ![c] = log[c] \o <<"close", "226">>]
            /\ pc' = [pc EXCEPT ![c] = "recv"]
            /\ UNCHANGED <<data_sockfd, pasv_sockfd, list_i, list_seen>>
    /\ UNCHANGED <<lifeVars, cstate, thread, num, next, prev, n_recv, ctrl_aborted>>
    /\ UNCHANGED <<pathVars, fileVars, device_list, wire>>

\* send_LIST, the body for a valid slot: devname points into the table, so
\* the name is read when sceIoGetstat and gen_list_format use it.  The entry
\* goes to client_send_data_msg; then i++.
send_LIST_emit(c) ==
    /\ pc[c] = "list_emit"
    /\ wire' = [wire EXCEPT ![c] = wire[c] \o <<device_list[list_i[c]].name>>]
    /\ log' = [log EXCEPT ![c] =
                  IF log[c][Len(log[c])] = "stream" THEN log[c] ELSE log[c] \o <<"stream">>]
    /\ list_i' = [list_i EXCEPT ![c] = list_i[c] + 1]
    /\ pc' = [pc EXCEPT ![c] = "list_check"]
    /\ UNCHANGED <<lifeVars, cstate, thread, num, next, prev, n_recv, ctrl_aborted>>
    /\ UNCHANGED <<chanVars, pathVars, fileVars, device_list, list_seen>>

\* ------------------------------------------------------------ device table
\* The device names the host application registers: "m:" and "n:".
DevM == <<"m", ":">>
DevN == <<"n", ":">>
DevNames == {DevM, DevN}

\* The first slot a scan from 0 finds among those of set S, or MAX_DEVICES.
FirstSlot(S) ==
    IF S # {}
    THEN CHOOSE i \in S : \A j \in S : i <= j
    ELSE MAX_DEVICES

\* Everything but the device table and the record of the last call on it.
NotDeviceVars ==
    <<ftp_initialized, server_thread_pc, server_sockfd, number_clients, client_list,
      client_list_mtx, fini_pc, fini_it, fini_next, fini_all_blocked, fini_reads,
      init_ret, regVars, chanVars, pathVars, fileVars, list_i, list_seen, obsVars>>

\* ftpvita_add_device: the first slot that is not valid takes the name and
\* becomes valid, and the call returns 1; it returns 0 when there is none.
\* No lock is taken.
ftpvita_add_device(devname) ==
    LET i == FirstSlot({k \in Slots : device_list[k].valid = 0})
    IN
    /\ device_list' = IF i < MAX_DEVICES
                      THEN [device_list EXCEPT ![i] = [name |-> devname, valid |-> 1]]
                      ELSE device_list
    /\ dev_call' = [op |-> "add", name |-> devname, was |-> device_list,
                    ret |-> IF i < MAX_DEVICES THEN 1 ELSE 0]
    /\ UNCHANGED NotDeviceVars

\* ftpvita_del_device: the first slot whose name compares equal, valid or
\* not, is marked invalid, and the call returns 1; it returns 0 when there
\* is none.  No lock is taken.
ftpvita_del_device(devname) ==
    LET i == FirstSlot({k \in Slots : device_list[k].name = devname})
    IN
    /\ device_list' = IF i < MAX_DEVICES
                      THEN [device_list EXCEPT ![i].valid = 0]
                      ELSE device_list
    /\ dev_call' = [op |-> "del", name |-> devname, was |-> device_list,
                    ret |-> IF i < MAX_DEVICES THEN 1 ELSE 0]
    /\ UNCHANGED NotDeviceVars

\* ------------------------------------------------------------ directories
\* The most CWD descents the model follows before the path is set to "/".
MaxDepth == 3

\* strrchr(path, '/'): the index of the last '/', 0 when there is none.
LastSlash(path) ==
    IF \E i \in 1..Len(path) : path[i] = "/"
    THEN CHOOSE i \in 1..Len(path) :
            path[i] = "/" /\ \A j \in (i + 1)..Len(path) : path[j] # "/"
    ELSE 0

\* path_is_at_root: the last '/' is the last character.
path_is_at_root(path) == LastSlash(path) = Len(path)

\* A dir_up that cuts at the last '/' also at the root of a device.
dir_up_NoDeviceRoot(path) ==
    IF Len(path) = 1 THEN <<"/">>
    ELSE IF LastSlash(path) = 1 THEN <<"/">>
    ELSE SubSeq(path, 1, LastSlash(path) - 1)

\* dir_up: "/" stays; the root of a device ("/foo0:/") goes to "/"; otherwise
\* cut from the last '/', and add a '/' to what is then like "/foo0:".
dir_up(path) ==
    IF Len(path) = 1 THEN <<"/">>
    ELSE IF path_is_at_root(path) THEN <<"/">>
    ELSE LET cut == SubSeq(path, 1, LastSlash(path) - 1)
         IN IF LastSlash(cut) = 1 THEN cut \o <<"/">> ELSE cut

\* The arguments of CWD: "/", "..", the device "m:", the directory "a", the
\* two-level "a/a" and the full path "/m:/a".
ArgUp == <<".", ".">>
ArgM == <<"m", ":">>
ArgA == <<"a">>
ArgAA == <<"a", "/", "a">>
ArgFull == <<"/", "m", ":", "/", "a">>
CwdArgs == {PathRoot, ArgUp, ArgM, ArgA, ArgAA, ArgFull}

\* A cmd_CWD_func that does not add the '/' to a path like "/foo0:".
cwd_tmp_path_NoSlash(cur, cmd_path) ==
    IF cmd_path[1] = "/" THEN cmd_path
    ELSE IF path_is_at_root(cur) THEN cur \o cmd_path
    ELSE cur \o <<"/">> \o cmd_path

\* cmd_CWD_func, the path that a descent checks and then makes current.
cwd_tmp_path(cur, cmd_path) ==
    LET t == IF cmd_path[1] = "/" THEN cmd_path
             ELSE IF path_is_at_root(cur) THEN cur \o cmd_path
             ELSE cur \o <<"/">> \o cmd_path
    IN IF LastSlash(t) = 1 THEN t \o <<"/">> ELSE t

\* The number of '/' in a path.
Slashes(path) == Cardinality({i \in 1..Len(path) : path[i] = "/"})

\* A cmd_CWD_func that copies the new path to cur_path before it probes it.
cmd_CWD_func_CommitsBeforeProbe(c, cmd_path, dopen_ok) ==
    /\ Dispatch(c)
    /\ IF cmd_path = NullPath
       THEN /\ log' = [log EXCEPT ![c] = <<"CWD", "500">>]
            /\ UNCHANGED <<cur_path, nav>>
       ELSE IF cmd_path = PathRoot
       THEN /\ cur_path' = [cur_path EXCEPT ![c] = cmd_path]
            /\ nav' = [nav EXCEPT ![c] =
                         [downs |-> 0, ups |-> 0, ok |-> TRUE, simple |-> TRUE]]
            /\ log' = [log EXCEPT ![c] = <<"CWD", "250">>]
       ELSE IF cmd_path = ArgUp
       THEN /\ cur_path' = [cur_path EXCEPT ![c] = dir_up(cur_path[c])]
            /\ nav' = [nav EXCEPT ![c].ok = FALSE]
            /\ log' = [log EXCEPT ![c] = <<"CWD", "250">>]
       ELSE /\ nav[c].downs < MaxDepth
            /\ cur_path' = [cur_path EXCEPT ![c] = cwd_tmp_path(cur_path[c], cmd_path)]
            /\ nav' = [nav EXCEPT ![c] =
                         [downs |-> @.downs + 1, ups |-> @.ups,
                          ok |-> @.ok /\ @.ups = 0,
                          simple |-> @.simple /\ Slashes(cmd_path) = 0]]
            /\ log' = [log EXCEPT ![c] =
                          IF cwd_tmp_path(cur_path[c], cmd_path) # PathRoot /\ ~dopen_ok
                          THEN <<"CWD", "550">> ELSE <<"CWD", "250">>]
    /\ UNCHANGED <<pc, chanVars, fileVars, mountVars, wire>>

\* cmd_CWD_func.  dopen_ok is the result of sceIoDopen on the new path; a
\* command line without an argument (NullPath) is answered 500.
cmd_CWD_func(c, cmd_path, dopen_ok) ==
    /\ Dispatch(c)
    /\ IF cmd_path = NullPath
       THEN /\ log' = [log EXCEPT ![c] = <<"CWD", "500">>]
            /\ UNCHANGED <<cur_path, nav>>
       ELSE IF cmd_path = PathRoot
       THEN /\ cur_path' = [cur_path EXCEPT ![c] = cmd_path]
            /\ nav' = [nav EXCEPT ![c] =
                         [downs |-> 0, ups |-> 0, ok |-> TRUE, simple |-> TRUE]]
            /\ log' = [log EXCEPT ![c] = <<"CWD", "250">>]
       ELSE IF cmd_path = ArgUp
       THEN /\ cur_path' = [cur_path EXCEPT ![c] = dir_up(cur_path[c])]
            /\ nav' = [nav EXCEPT ![c].ok = FALSE]
            /\ log' = [log EXCEPT ![c] = <<"CWD", "250">>]
       ELSE IF cwd_tmp_path(cur_path[c], cmd_path) # PathRoot /\ ~dopen_ok
       THEN /\ log' = [log EXCEPT ![c] = <<"CWD", "550">>]
            /\ UNCHANGED <<cur_path, nav>>
       ELSE /\ nav[c].downs < MaxDepth
            /\ cur_path' = [cur_path EXCEPT ![c] = cwd_tmp_path(cur_path[c], cmd_path)]
            /\ nav' = [nav EXCEPT ![c] =
                         [downs |-> @.downs + 1, ups |-> @.ups,
                          ok |-> @.ok /\ @.ups = 0,
                          simple |-> @.simple /\ Slashes(cmd_path) = 0]]
            /\ log' = [log EXCEPT ![c] = <<"CWD", "250">>]
    /\ UNCHANGED <<pc, chanVars, fileVars, mountVars, wire>>

\* cmd_CDUP_func.
cmd_CDUP_func(c) ==
    /\ Dispatch(c)
    /\ nav[c].ups <= MaxDepth
    /\ cur_path' = [cur_path EXCEPT ![c] = dir_up(cur_path[c])]
    /\ nav' = [nav EXCEPT ![c].ups = @ + 1]
    /\ log' = [log EXCEPT ![c] = <<"CDUP", "200">>]
    /\ UNCHANGED <<pc, chanVars, fileVars, mountVars, wire>>

\* ---------------------------------------------------------------- rename
\* file_exists: sceIoGetstat succeeds.
file_exists(path) == path \in NativePaths /\ files[path].exists

\* cmd_RNFR_func: 550 when the file does not exist, else copy the path to
\* rename_path and reply 250.
cmd_RNFR_func(c, arg) ==
    LET vita_path_src == get_vita_path(gen_filepath(cur_path[c], arg))
    IN
    /\ Dispatch(c)
    /\ IF ~file_exists(vita_path_src)
       THEN /\ log' = [log EXCEPT ![c] = <<"RNFR", "550">>]
            /\ UNCHANGED <<rename_path, staged>>
       ELSE /\ rename_path' = [rename_path EXCEPT ![c] = vita_path_src]
            /\ staged' = [staged EXCEPT ![c] = TRUE]
            /\ log' = [log EXCEPT ![c] = <<"RNFR", "250">>]
    /\ UNCHANGED <<pc, chanVars, pathVars, files, stored, rnto_staged, mountVars, wire>>

\* sceIoRename(src, dst): moves an existing file, fails otherwise.
sceIoRename(fs, src, dst) ==
    IF src \in NativePaths /\ fs[src].exists /\ dst \in NativePaths
    THEN [ok |-> TRUE,
          files |-> IF src = dst THEN fs
                    ELSE [fs EXCEPT ![dst] = fs[src], ![src] = NoFile]]
    ELSE [ok |-> FALSE, files |-> fs]

\* What the bytes of rename_path can name: the path an RNFR copied there, or,
\* in a buffer that was never written, any path or none.
RenameSources(c) ==
    IF rename_path[c] = UninitPath THEN NativePaths \cup {NullPath}
    ELSE {rename_path[c]}

\* cmd_RNTO_func: sceIoRename(rename_path, destination), 550 when it fails,
\* and 226 in either case.  rename_path stays as it was.
cmd_RNTO_func(c, arg) ==
    LET vita_path_dst == get_vita_path(gen_filepath(cur_path[c], arg))
    IN
    /\ Dispatch(c)
    /\ \E src \in RenameSources(c) :
          LET r == sceIoRename(files, src, vita_path_dst)
          IN /\ files' = r.files
             /\ stored' = sceIoRename(stored, src, vita_path_dst).files
             /\ log' = [log EXCEPT ![c] =
                          <<"RNTO", "rename">>
                          \o (IF r.ok THEN <<"renamed">> ELSE <<"550">>)
                          \o <<"226">>]
    /\ rnto_staged' = [rnto_staged EXCEPT ![c] = staged[c]]
    /\ staged' = [staged EXCEPT ![c] = FALSE]
    /\ UNCHANGED <<pc, chanVars, pathVars, rename_path, mountVars, wire>>

\* ------------------------------------------------------ simple replies
\* What a handler that only sends its reply does.
ReplyOnly(c, events) ==
    /\ log' = [log EXCEPT ![c] = events]
    /\ UNCHANGED <<pc, chanVars, pathVars, fileVars, mountVars, wire>>

cmd_USER_func(c) ==
    /\ Dispatch(c)
    /\ ReplyOnly(c, <<"USER", "331">>)

cmd_PASS_func(c) ==
    /\ Dispatch(c)
    /\ ReplyOnly(c, <<"PASS", "230">>)

\* cmd_QUIT_func sends 221 and returns to the loop of client_thread.
cmd_QUIT_func(c) ==
    /\ Dispatch(c)
    /\ ReplyOnly(c, <<"QUIT", "221">>)

cmd_SYST_func(c) ==
    /\ Dispatch(c)
    /\ ReplyOnly(c, <<"SYST", "215">>)

\* cmd_PWD_func: 257 "<cur_path>" is the current directory.
cmd_PWD_func(c) ==
    /\ Dispatch(c)
    /\ ReplyOnly(c, <<"PWD", "257", "\"">> \o cur_path[c] \o <<"\"">>)

\* The arguments of TYPE: none, and the type characters A, I and E.
TypeArgs == {<<>>, <<"A">>, <<"I">>, <<"E">>}

\* cmd_TYPE_func: 200 for A and I, 504 for any other type and for none.
cmd_TYPE_func(c, args) ==
    /\ Dispatch(c)
    /\ ReplyOnly(c, <<"TYPE", IF Len(args) > 0 /\ args[1] \in {"A", "I"}
                              THEN "200" ELSE "504">>)

\* char cmd[16] of client_thread, which sscanf("%s") fills with the verb.
CmdSize == 16
\* The lengths of the verbs no handler matches: a short one, the longest
\* that fits cmd with its terminator, and the shortest that does not.
VerbLens == {4, CmdSize - 1, CmdSize}

\* client_thread, a command line whose verb is not in cmd_dispatch_table:
\* 502.  A verb of CmdSize characters or more is written past the end of
\* cmd: the thread either goes on as if nothing happened or faults, and the
\* fault ends the session from inside the loop.
client_thread_recv_unknown(c, len) ==
    /\ Dispatch(c)
    /\ \/ /\ log' = [log EXCEPT ![c] = <<"502">>]
          /\ UNCHANGED pc
       \/ /\ len >= CmdSize
          /\ log' = [log EXCEPT ![c] = <<"overflow">>]
          /\ pc' = [pc EXCEPT ![c] = "crashed"]
    /\ UNCHANGED <<chanVars, pathVars, fileVars, mountVars, wire>>

\* ------------------------------------------------------- delete and size
\* The arguments of DELE and SIZE: the bare root "/" and the two files.
StorageArgs == {PathRoot} \cup FileArgs

\* What the log holds for a storage call: the call's name, and "null_path"
\* when the path handed to it is the NULL of get_vita_path.
StorageCall(name, path) ==
    <<name>> \o (IF path = NullPath THEN <<"null_path">> ELSE <<>>)

\* delete_file: sceIoRemove(path), 226 when it succeeds and 550 when not.
\* remove_ok is what the storage layer answers for a file that exists.
delete_file(c, path, remove_ok) ==
    LET removed == remove_ok /\ path \in NativePaths /\ files[path].exists
    IN /\ log' = [log EXCEPT ![c] = <<"DELE">> \o StorageCall("sceIoRemove", path)
                                     \o <<IF removed THEN "226" ELSE "550">>]
       /\ files' = IF removed THEN [files EXCEPT ![path] = NoFile] ELSE files
       /\ stored' = IF removed THEN [stored EXCEPT ![path] = NoFile] ELSE stored

cmd_DELE_func(c, arg, remove_ok) ==
    /\ Dispatch(c)
    /\ delete_file(c, get_vita_path(gen_filepath(cur_path[c], arg)), remove_ok)
    /\ UNCHANGED <<pc, chanVars, pathVars, rename_path, staged, rnto_staged,
                   mountVars, wire>>

\* cmd_SIZE_func: sceIoGetstat(get_vita_path(path)), 550 when it fails and the
\* 213 reply with the size when not.
cmd_SIZE_func(c, arg, stat_ok) ==
    LET path == get_vita_path(gen_filepath(cur_path[c], arg))
        found == stat_ok /\ path \in NativePaths /\ files[path].exists
    IN /\ Dispatch(c)
       /\ log' = [log EXCEPT ![c] = <<"SIZE">> \o StorageCall("sceIoGetstat", path)
                                     \o <<IF found THEN "213" ELSE "550">>]
       /\ UNCHANGED <<pc, chanVars, pathVars, fileVars, mountVars, wire>>

\* ================================================================ shutdown
\* ftpvita_fini up to sceKernelWaitThreadEnd(server_thid): close server_sockfd.
\* A socket the server thread has not created yet is not closed by this.
ftpvita_fini_begin ==
    /\ fini_pc \in {"idle", "returned"}
    /\ ftp_initialized = 1
    /\ server_sockfd' = IF server_sockfd = "listening" THEN "closed" ELSE server_sockfd
    /\ fini_pc' = "wait_server"
    /\ fini_all_blocked' = \A c \in ClientIds : thread[c] = "running" => Receiving(c)
    /\ UNCHANGED <<ftp_initialized, server_thread_pc, number_clients, client_list,
                   client_list_mtx, fini_it, fini_next, fini_reads, dev_call, init_ret>>
    /\ UNCHANGED <<regVars, sessVars>>

\* The server thread has ended; client_list_thread_end locks the mutex and
\* reads the head of the list.
client_list_thread_end_lock ==
    /\ fini_pc = "wait_server"
    /\ server_thread_pc = "ended"
    /\ client_list_mtx = "free"
    /\ client_list_mtx' = "fini"
    /\ fini_it' = client_list
    /\ fini_pc' = "iter"
    /\ UNCHANGED <<ftp_initialized, server_thread_pc, server_sockfd, number_clients,
                   client_list, fini_next, fini_all_blocked,
                   fini_reads, dev_call, init_ret>>
    /\ UNCHANGED <<regVars, sessVars>>

\* What client_list_thread_end reads of the data connection of session c:
\* data_con_type, and when that is not NONE data_sockfd, and when it is
\* PASSIVE pasv_sockfd too.  It hands both descriptors to sceNetSocketAbort.
DataFieldsRead(c) ==
    {[of |-> c, field |-> "data_con_type", fd |-> NULL]}
    \cup (IF data_con_type[c] # FTP_DATA_CONNECTION_NONE
          THEN {[of |-> c, field |-> "data_sockfd", fd |-> data_sockfd[c]]}
          ELSE {})
    \cup (IF data_con_type[c] = FTP_DATA_CONNECTION_PASSIVE
          THEN {[of |-> c, field |-> "pasv_sockfd", fd |-> pasv_sockfd[c]]}
          ELSE {})

\* One iteration up to the wait: read it->next and it->thid, abort the
\* control socket (and the data sockets of an open data connection).
client_list_thread_end_abort ==
    /\ fini_pc = "iter"
    /\ fini_it # NULL
    /\ fini_next' = next[fini_it]
    /\ ctrl_aborted' = [ctrl_aborted EXCEPT ![fini_it] = TRUE]
    /\ fini_reads' = DataFieldsRead(fini_it)
    /\ fini_pc' = "wait_client"
    /\ UNCHANGED <<ftp_initialized, server_thread_pc, server_sockfd, number_clients,
                   client_list, client_list_mtx, fini_it, fini_all_blocked, dev_call,
                   init_ret>>
    /\ UNCHANGED <<cstate, thread, pc, num, next, prev, n_recv, sessVars>>

\* sceKernelWaitThreadEnd(client_thid) returns once that thread has ended.
client_list_thread_end_wait ==
    /\ fini_pc = "wait_client"
    /\ thread[fini_it] # "running"
    /\ fini_it' = fini_next
    /\ fini_pc' = "iter"
    /\ UNCHANGED <<ftp_initialized, server_thread_pc, server_sockfd, number_clients,
                   client_list, client_list_mtx, fini_next, fini_all_blocked,
                   fini_reads, dev_call, init_ret>>
    /\ UNCHANGED <<regVars, sessVars>>

\* The loop is over: unlock the mutex; client_list_thread_end returns.
client_list_thread_end_unlock ==
    /\ fini_pc = "iter"
    /\ fini_it = NULL
    /\ client_list_mtx' = "free"
    /\ fini_pc' = "thread_end_done"
    /\ UNCHANGED <<ftp_initialized, server_thread_pc, server_sockfd, number_clients,
                   client_list, fini_it, fini_next, fini_all_blocked,
                   fini_reads, dev_call, init_ret>>
    /\ UNCHANGED <<regVars, sessVars>>

\* ftpvita_fini called while ftp_initialized is clear: return at once.
ftpvita_fini_uninitialized ==
    /\ fini_pc \in {"idle", "returned"}
    /\ ftp_initialized = 0
    /\ fini_pc' = "returned"
    /\ UNCHANGED <<ftp_initialized, server_thread_pc, server_sockfd, number_clients,
                   client_list, client_list_mtx, fini_it, fini_next, fini_all_blocked,
                   fini_reads, dev_call, init_ret>>
    /\ UNCHANGED <<regVars, sessVars>>

\* A ftpvita_fini that returns without clearing ftp_initialized.
ftpvita_fini_end_KeepsFlag ==
    /\ fini_pc = "thread_end_done"
    /\ client_list' = NULL
    /\ number_clients' = 0
    /\ fini_pc' = "returned"
    /\ UNCHANGED <<ftp_initialized, server_thread_pc, server_sockfd, client_list_mtx,
                   fini_it, fini_next, fini_all_blocked, fini_reads, dev_call, init_ret>>
    /\ UNCHANGED <<regVars, sessVars>>

\* The rest of ftpvita_fini: delete the mutex, empty the registry, clear
\* ftp_initialized, return.
ftpvita_fini_end ==
    /\ fini_pc = "thread_end_done"
    /\ client_list' = NULL
    /\ number_clients' = 0
    /\ ftp_initialized' = 0
    /\ fini_pc' = "returned"
    /\ UNCHANGED <<server_thread_pc, server_sockfd, client_list_mtx, fini_it, fini_next,
                   fini_all_blocked, fini_reads, dev_call, init_ret>>
    /\ UNCHANGED <<regVars, sessVars>>

\* ========================================================= initial states
\* The state in which the server runs and the accept loop has accepted one
\* connection, whose thread has sent its greeting and waits for a command:
\* Init, then ftpvita_init, server_thread_setup, server_thread_accept(1),
\* client_thread_greet(1).
SessionInit ==
    /\ ftp_initialized = 1
    /\ server_thread_pc = "accept"
    /\ server_sockfd = "listening"
    /\ number_clients = 1
    /\ client_list = 1
    /\ client_list_mtx = "free"
    /\ device_list = [i \in Slots |-> [name |-> <<>>, valid |-> 0]]
    /\ fini_pc = "idle"
    /\ fini_it = NULL
    /\ fini_next = NULL
    /\ cstate = [c \in ClientIds |-> IF c = 1 THEN "live" ELSE "unused"]
    /\ thread = [c \in ClientIds |-> IF c = 1 THEN "running" ELSE "none"]
    /\ pc = [c \in ClientIds |-> IF c = 1 THEN "recv" ELSE "none"]
    /\ num = [c \in ClientIds |-> 0]
    /\ next = [c \in ClientIds |-> NULL]
    /\ prev = [c \in ClientIds |-> NULL]
    /\ n_recv = [c \in ClientIds |-> "none"]
    /\ data_con_type = [c \in ClientIds |-> FTP_DATA_CONNECTION_NONE]
    /\ data_sockfd = [c \in ClientIds |-> UninitFd]
    /\ pasv_sockfd = [c \in ClientIds |-> UninitFd]
    /\ cur_path = [c \in ClientIds |-> IF c = 1 THEN FTP_DEFAULT_PATH ELSE UninitPath]
    /\ rename_path = [c \in ClientIds |-> UninitPath]
    /\ list_i = [c \in ClientIds |-> 0]
    /\ ctrl_aborted = [c \in ClientIds |-> FALSE]
    /\ fd_owner = [f \in Fds |-> NULL]
    /\ files = [p \in NativePaths |-> NoFile]
    /\ log = [c \in ClientIds |-> IF c = 1 THEN <<"220">> ELSE <<>>]
    /\ wire = [c \in ClientIds |-> <<>>]
    /\ fini_all_blocked = FALSE
    /\ fini_reads = {}
    /\ dev_call = NoCall
    /\ init_ret = "ok"
    /\ list_seen = [c \in ClientIds |-> <<>>]
    /\ stored = [p \in NativePaths |-> NoFile]
    /\ staged = [c \in ClientIds |-> FALSE]
    /\ rnto_staged = [c \in ClientIds |-> FALSE]
    /\ nav = [c \in ClientIds |->
                IF c = 1 THEN [downs |-> 0, ups |-> 0, ok |-> TRUE, simple |-> TRUE]
                ELSE [downs |-> 0, ups |-> 0, ok |-> FALSE, simple |-> TRUE]]

\* ========================================================= specifications
\* The server lifecycle with its sessions.
Next ==
    \/ ftpvita_init
    \/ server_thread_setup
    \/ \E c \in ClientIds : server_thread_accept(c)
    \/ server_thread_exit
    \/ server_thread_accept_error
    \/ \E c \in ClientIds : client_thread_greet(c)
    \/ \E c \in ClientIds : cmd_NOOP_func(c)
    \/ \E c \in ClientIds : client_thread_recv_closed(c)
    \/ \E c \in ClientIds : client_thread_recv_error(c)
    \/ \E c \in ClientIds : client_thread_recv_aborted(c)
    \/ \E c \in ClientIds : client_list_delete(c)
    \/ \E c \in ClientIds : client_thread_close(c)
    \/ \E c \in ClientIds : client_thread_exit(c)
    \/ ftpvita_fini_begin
    \/ client_list_thread_end_lock
    \/ client_list_thread_end_abort
    \/ client_list_thread_end_wait
    \/ client_list_thread_end_unlock
    \/ ftpvita_fini_end

Spec == Init /\ [][Next]_vars

\* One session's data connection: PASV, PORT and the four transfer commands
\* with empty payloads, on the file "/m:/f" and the directories "/" and "/m:".
EmptyStream == <<0>>

ChannelNext ==
    \/ \E c \in ClientIds : cmd_PASV_func(c)
    \/ \E c \in ClientIds : cmd_PORT_func(c)
    \/ \E c \in ClientIds, arg \in ListArgs, dopen_ok, conn_ok \in BOOLEAN :
          cmd_LIST_func(c, arg, dopen_ok, conn_ok)
    \/ \E c \in ClientIds : send_LIST_check(c)
    \/ \E c \in ClientIds, open_ok, malloc_ok, conn_ok \in BOOLEAN :
          cmd_RETR_func(c, PathF, open_ok, malloc_ok, conn_ok, 0)
    \/ \E c \in ClientIds, open_ok, malloc_ok, conn_ok \in BOOLEAN :
          cmd_STOR_func(c, PathF, open_ok, malloc_ok, conn_ok, EmptyStream, 0)
    \/ \E c \in ClientIds, open_ok, malloc_ok, conn_ok \in BOOLEAN :
          cmd_APPE_func(c, PathF, open_ok, malloc_ok, conn_ok, EmptyStream, 0)

ChannelSpec == SessionInit /\ [][ChannelNext]_vars

\* The course of one transfer: active-mode transfers of at most one byte, with
\* receive and write errors, and listings of "/" with the device "m:".  The
\* client sends PORT only when no data connection is configured.
ShortStreams == StreamsOf(0..1)

TransferNext ==
    \/ \E c \in ClientIds :
          data_con_type[c] = FTP_DATA_CONNECTION_NONE /\ cmd_PORT_func(c)
    \/ \E c \in ClientIds, arg \in ListArgs, dopen_ok, conn_ok \in BOOLEAN :
          cmd_LIST_func(c, arg, dopen_ok, conn_ok)
    \/ \E c \in ClientIds : send_LIST_check(c)
    \/ \E c \in ClientIds : send_LIST_emit(c)
    \/ \E c \in ClientIds, open_ok, conn_ok \in BOOLEAN :
          cmd_RETR_func(c, PathF, open_ok, TRUE, conn_ok, 0)
    \/ \E c \in ClientIds, open_ok, conn_ok \in BOOLEAN,
          stream \in ShortStreams, wfail \in 0..1 :
          cmd_STOR_func(c, PathF, open_ok, TRUE, conn_ok, stream, wfail)
    \/ \E c \in ClientIds, open_ok, conn_ok \in BOOLEAN,
          stream \in ShortStreams, wfail \in 0..1 :
          cmd_APPE_func(c, PathF, open_ok, TRUE, conn_ok, stream, wfail)
    \/ ftpvita_add_device(DevM)

TransferSpec == SessionInit /\ [][TransferNext]_vars

\* Storing and retrieving one file, "/m:/f": payloads of up to MaxPayload
\* bytes arriving in every chunking, in active and in passive mode.  The
\* client configures a data connection only when none is configured.
RoundTripNext ==
    \/ \E c \in ClientIds :
          data_con_type[c] = FTP_DATA_CONNECTION_NONE /\ cmd_PORT_func(c)
    \/ \E c \in ClientIds :
          data_con_type[c] = FTP_DATA_CONNECTION_NONE /\ cmd_PASV_func(c)
    \/ \E c \in ClientIds, open_ok, conn_ok \in BOOLEAN, stream \in Streams,
          wfail \in 0..MaxPayload :
          cmd_STOR_func(c, PathF, open_ok, TRUE, conn_ok, stream, wfail)
    \/ \E c \in ClientIds, open_ok, conn_ok \in BOOLEAN :
          cmd_RETR_func(c, PathF, open_ok, TRUE, conn_ok, 0)

RoundTripSpec == SessionInit /\ [][RoundTripNext]_vars

\* Changing directory: CWD with every argument of CwdArgs, CDUP.
PathNext ==
    \/ \E c \in ClientIds, cmd_path \in CwdArgs, dopen_ok \in BOOLEAN :
          cmd_CWD_func(c, cmd_path, dopen_ok)
    \/ \E c \in ClientIds : cmd_CDUP_func(c)

PathSpec == SessionInit /\ [][PathNext]_vars

\* Renaming: files "/m:/f" and "/m:/g" come about by STOR in active mode and
\* are renamed by RNFR and RNTO.
RenameNext ==
    \/ \E c \in ClientIds :
          data_con_type[c] = FTP_DATA_CONNECTION_NONE /\ cmd_PORT_func(c)
    \/ \E c \in ClientIds, arg \in FileArgs :
          cmd_STOR_func(c, arg, TRUE, TRUE, TRUE, EmptyStream, 0)
    \/ \E c \in ClientIds, arg \in FileArgs : cmd_RNFR_func(c, arg)
    \/ \E c \in ClientIds, arg \in FileArgs : cmd_RNTO_func(c, arg)

RenameSpec == SessionInit /\ [][RenameNext]_vars

\* Listing "/" while the host application adds and removes the devices "m:"
\* and "n:".
MountNext ==
    \/ \E c \in ClientIds :
          data_con_type[c] = FTP_DATA_CONNECTION_NONE /\ cmd_PORT_func(c)
    \/ \E c \in ClientIds, conn_ok \in BOOLEAN : cmd_LIST_func(c, PathRoot, TRUE, conn_ok)
    \/ \E c \in ClientIds : send_LIST_check(c)
    \/ \E c \in ClientIds : send_LIST_emit(c)
    \/ \E devname \in DevNames : ftpvita_add_device(devname)
    \/ \E devname \in DevNames : ftpvita_del_device(devname)

MountSpec == SessionInit /\ [][MountNext]_vars

\* Sessions ending: a second connection is accepted, sessions configure data
\* connections with PASV and PORT, and end by a peer close or a socket error.
ExitNext ==
    \/ \E c \in ClientIds : server_thread_accept(c)
    \/ \E c \in ClientIds : client_thread_greet(c)
    \/ \E c \in ClientIds : cmd_PASV_func(c)
    \/ \E c \in ClientIds : cmd_PORT_func(c)
    \/ \E c \in ClientIds : client_thread_recv_closed(c)
    \/ \E c \in ClientIds : client_thread_recv_error(c)
    \/ \E c \in ClientIds : client_list_delete(c)
    \/ \E c \in ClientIds : client_thread_close(c)
    \/ \E c \in ClientIds : client_thread_exit(c)

ExitSpec == SessionInit /\ [][ExitNext]_vars

\* Deleting and sizing files: active-mode stores of at most one byte into
\* "/m:/f", then DELE and SIZE with every argument of StorageArgs.
StorageNext ==
    \/ \E c \in ClientIds :
          data_con_type[c] = FTP_DATA_CONNECTION_NONE /\ cmd_PORT_func(c)
    \/ \E c \in ClientIds, arg \in FileArgs, open_ok \in BOOLEAN,
          stream \in ShortStreams :
          cmd_STOR_func(c, arg, open_ok, TRUE, TRUE, stream, 0)
    \/ \E c \in ClientIds, arg \in StorageArgs, remove_ok \in BOOLEAN :
          cmd_DELE_func(c, arg, remove_ok)
    \/ \E c \in ClientIds, arg \in StorageArgs, stat_ok \in BOOLEAN :
          cmd_SIZE_func(c, arg, stat_ok)

StorageSpec == SessionInit /\ [][StorageNext]_vars

\* The control loop of one session under every kind of command line: verbs
\* that are not in the table, malformed TYPE and CWD, QUIT, failing storage
\* calls and failing one-byte stores, and the three ways the receive ends
\* the loop, the shutdown's abort among them.
ProtocolNext ==
    \/ \E c \in ClientIds : cmd_NOOP_func(c)
    \/ \E c \in ClientIds : cmd_QUIT_func(c)
    \/ \E c \in ClientIds : cmd_SYST_func(c)
    \/ \E c \in ClientIds, args \in TypeArgs : cmd_TYPE_func(c, args)
    \/ \E c \in ClientIds, len \in VerbLens : client_thread_recv_unknown(c, len)
    \/ \E c \in ClientIds : cmd_CWD_func(c, NullPath, FALSE)
    \/ \E c \in ClientIds, remove_ok \in BOOLEAN : cmd_DELE_func(c, PathF, remove_ok)
    \/ \E c \in ClientIds :
          data_con_type[c] = FTP_DATA_CONNECTION_NONE /\ cmd_PORT_func(c)
    \/ \E c \in ClientIds, open_ok \in BOOLEAN :
          cmd_RETR_func(c, PathF, open_ok, TRUE, TRUE, 0)
    \/ \E c \in ClientIds, open_ok \in BOOLEAN, stream \in ShortStreams :
          cmd_STOR_func(c, PathF, open_ok, TRUE, TRUE, stream, 0)
    \/ \E c \in ClientIds : client_thread_recv_closed(c)
    \/ \E c \in ClientIds : client_thread_recv_error(c)
    \/ \E c \in ClientIds : client_thread_recv_aborted(c)
    \/ \E c \in ClientIds : client_list_delete(c)
    \/ \E c \in ClientIds : client_thread_close(c)
    \/ \E c \in ClientIds : client_thread_exit(c)
    \/ ftpvita_fini_begin
    \/ server_thread_exit
    \/ client_list_thread_end_lock
    \/ client_list_thread_end_abort
    \/ client_list_thread_end_wait
    \/ client_list_thread_end_unlock
    \/ ftpvita_fini_end

ProtocolSpec == SessionInit /\ [][ProtocolNext]_vars

\* The opening of a session, from the static initialisers: the server
\* starts, accepts, greets, and the client logs in, asks for the current
\* directory and changes it to "/" and to the device "m:".
LoginNext ==
    \/ ftpvita_init
    \/ server_thread_setup
    \/ \E c \in ClientIds : server_thread_accept(c)
    \/ \E c \in ClientIds : client_thread_greet(c)
    \/ \E c \in ClientIds : cmd_USER_func(c)
    \/ \E c \in ClientIds : cmd_PASS_func(c)
    \/ \E c \in ClientIds : cmd_PWD_func(c)
    \/ \E c \in ClientIds, cmd_path \in {PathRoot, ArgM}, dopen_ok \in BOOLEAN :
          cmd_CWD_func(c, cmd_path, dopen_ok)

LoginSpec == Init /\ [][LoginNext]_vars

\* Moving about the directories among other commands: CWD with every
\* argument of CwdArgs and with none, CDUP, and the commands that take a
\* path or none and leave the current directory alone.
DirNext ==
    \/ \E c \in ClientIds, cmd_path \in CwdArgs \cup {NullPath}, dopen_ok \in BOOLEAN :
          cmd_CWD_func(c, cmd_path, dopen_ok)
    \/ \E c \in ClientIds : cmd_CDUP_func(c)
    \/ \E c \in ClientIds : cmd_PWD_func(c)
    \/ \E c \in ClientIds, remove_ok \in BOOLEAN : cmd_DELE_func(c, PathF, remove_ok)
    \/ \E c \in ClientIds, stat_ok \in BOOLEAN : cmd_SIZE_func(c, PathF, stat_ok)
    \/ \E c \in ClientIds : cmd_RNFR_func(c, PathF)

DirSpec == SessionInit /\ [][DirNext]_vars

\* The shutdown of a server with one session that configures data
\* connections and lists "/": ftpvita_fini can start at any point, between
\* two steps of send_LIST too.
AbortNext ==
    \/ \E c \in ClientIds :
          data_con_type[c] = FTP_DATA_CONNECTION_NONE /\ cmd_PORT_func(c)
    \/ \E c \in ClientIds :
          data_con_type[c] = FTP_DATA_CONNECTION_NONE /\ cmd_PASV_func(c)
    \/ \E c \in ClientIds, conn_ok \in BOOLEAN :
          cmd_LIST_func(c, PathRoot, TRUE, conn_ok)
    \/ \E c \in ClientIds : send_LIST_check(c)
    \/ \E c \in ClientIds : send_LIST_emit(c)
    \/ ftpvita_add_device(DevM)
    \/ \E c \in ClientIds : client_thread_recv_aborted(c)
    \/ \E c \in ClientIds : client_thread_close(c)
    \/ \E c \in ClientIds : client_thread_exit(c)
    \/ ftpvita_fini_begin
    \/ server_thread_exit
    \/ client_list_thread_end_lock
    \/ client_list_thread_end_abort
    \/ client_list_thread_end_wait
    \/ client_list_thread_end_unlock
    \/ ftpvita_fini_end

AbortSpec == SessionInit /\ [][AbortNext]_vars

\* Retrieving "/m:/f" from a storage that may fail: active-mode stores of
\* payloads of up to MaxPayload bytes, then RETR with the first, second or
\* third sceIoRead failing, or none.
ReadNext ==
    \/ \E c \in ClientIds :
          data_con_type[c] = FTP_DATA_CONNECTION_NONE /\ cmd_PORT_func(c)
    \/ \E c \in ClientIds, stream \in Streams :
          cmd_STOR_func(c, PathF, TRUE, TRUE, TRUE, stream, 0)
    \/ \E c \in ClientIds, open_ok \in BOOLEAN, rfail \in 0..3 :
          cmd_RETR_func(c, PathF, open_ok, TRUE, TRUE, rfail)
    \/ \E c \in ClientIds, ret \in {IoError, 0} : send_file_read(c, ret)

ReadSpec == SessionInit /\ [][ReadNext]_vars

\* The life of the server as the host application drives it: ftpvita_init
\* succeeding, failing and called again, ftpvita_fini called at any point
\* and when nothing is initialised, with sessions that connect and are
\* closed by their peer or aborted by the shutdown.
LifecycleNext ==
    \/ ftpvita_init
    \/ ftpvita_init_initialized
    \/ ftpvita_init_failed
    \/ ftpvita_fini_uninitialized
    \/ server_thread_setup
    \/ \E c \in ClientIds : server_thread_accept(c)
    \/ server_thread_exit
    \/ server_thread_accept_error
    \/ \E c \in ClientIds : client_thread_greet(c)
    \/ \E c \in ClientIds : client_thread_recv_closed(c)
    \/ \E c \in ClientIds : client_thread_recv_aborted(c)
    \/ \E c \in ClientIds : client_list_delete(c)
    \/ \E c \in ClientIds : client_thread_close(c)
    \/ \E c \in ClientIds : client_thread_exit(c)
    \/ ftpvita_fini_begin
    \/ client_list_thread_end_lock
    \/ client_list_thread_end_abort
    \/ client_list_thread_end_wait
    \/ client_list_thread_end_unlock
    \/ ftpvita_fini_end

LifecycleSpec == Init /\ [][LifecycleNext]_vars

\* ================================================================= claims
\* C1: client_list_thread_end returns only after every session thread has
\* terminated: when it has returned, no client_thread is still running.
C1_ShutdownOutlivesNoSession ==
    fini_pc = "thread_end_done" => \A c \in ClientIds : thread[c] # "running"

\* C2 (safety half): when ftpvita_fini was invoked while every session was
\* blocked in the control-socket receive, then at its return every session
\* thread has exited and the registry is empty.
C2_BlockedSessionsExitBeforeReturn ==
    (fini_pc = "returned" /\ fini_all_blocked) =>
        /\ \A c \in ClientIds : thread[c] # "running"
        /\ client_list = NULL
        /\ number_clients = 0

\* The descriptors of open data sockets that session c created.
OpenDataSockets(c) == {f \in Fds : fd_owner[f] = c}

\* C3: between commands a session holds at most one open data socket: each
\* PORT or PASV leaves no earlier data socket of the session open.
C3_AtMostOneDataChannel ==
    \A c \in ClientIds : pc[c] = "recv" => Cardinality(OpenDataSockets(c)) <= 1

TransferVerbs == {"LIST", "RETR", "STOR", "APPE"}
Returned(c) == pc[c] = "recv" /\ Len(log[c]) > 0
InLog(c, e) == \E i \in 1..Len(log[c]) : log[c][i] = e

\* C4: whenever a LIST, RETR, STOR or APPE handler has returned, on any of
\* its paths, the data connection's sockets are closed and the type is NONE.
C4_TransferConsumesChannel ==
    \A c \in ClientIds :
        (Returned(c) /\ log[c][1] \in TransferVerbs) =>
            /\ data_con_type[c] = FTP_DATA_CONNECTION_NONE
            /\ ~IsOpen(fd_owner, data_sockfd[c])
            /\ ~IsOpen(fd_owner, pasv_sockfd[c])

\* Event a comes before event b in the log of session c (both occur).
Before(c, a, b) ==
    \E i, j \in 1..Len(log[c]) : i < j /\ log[c][i] = a /\ log[c][j] = b
Final(c) == IF InLog(c, "426") THEN "426" ELSE "226"
Transferred(c) == Returned(c) /\ log[c][1] \in TransferVerbs /\ InLog(c, "close")

\* C5 as stated: in every completed transfer the 150 reply precedes the
\* opening of the data connection, streaming follows, the data connection is
\* closed after streaming, and the final 226/426 comes after the close.
C5_OrderAsStated ==
    \A c \in ClientIds :
        Transferred(c) =>
            /\ Before(c, "150", "open")
            /\ Before(c, "open", "stream")
            /\ Before(c, "stream", "close")
            /\ Before(c, "close", Final(c))

\* C6: a STOR or APPE that met a receive error or a write error removes the
\* file and replies 426 and not 226; one that met neither replies 226 and
\* removes nothing.
C6_FailedStoreRemovesAndReplies426 ==
    \A c \in ClientIds :
        (Transferred(c) /\ log[c][1] \in {"STOR", "APPE"}) =>
            IF InLog(c, "recv_err") \/ InLog(c, "write_err")
            THEN InLog(c, "remove") /\ InLog(c, "426") /\ ~InLog(c, "226")
            ELSE InLog(c, "226") /\ ~InLog(c, "remove") /\ ~InLog(c, "426")

\* A RETR of "/m:/f" has completed on a working data connection.
Retrieved(c) ==
    /\ Returned(c)
    /\ log[c][1] = "RETR"
    /\ InLog(c, "226")
    /\ ~InLog(c, "conn_err")

\* C7: after a STOR of "/m:/f" that received its whole payload and stored
\* it, a RETR of the same path puts on the data connection exactly the bytes
\* the peer had sent to the STOR, in order.
C7_StorRetrRoundTrip ==
    \A c \in ClientIds :
        (Retrieved(c) /\ stored[get_vita_path(PathF)].exists) =>
            wire[c] = stored[get_vita_path(PathF)].data

\* C7 witness: round trips of the empty payload, of one within one buffer
\* and of one spanning several buffers have completed.
C7_Witness_Long ==
    \E c \in ClientIds :
        /\ Retrieved(c)
        /\ stored[get_vita_path(PathF)].exists
        /\ Len(stored[get_vita_path(PathF)].data) = MaxPayload
        /\ wire[c] = Bytes(0, MaxPayload)

\* The session's commands since its path was last set to "/" were CWD
\* descents followed by as many CDUPs, and there was at least one descent.
WentDownAndUp(c) ==
    /\ Returned(c)
    /\ nav[c].ok
    /\ nav[c].downs > 0
    /\ nav[c].ups = nav[c].downs

\* C8 as stated: after successful CWD descents from "/" followed by as many
\* CDUPs, the current path is "/".
C8_DownAndUpIsRoot ==
    \A c \in ClientIds : WentDownAndUp(c) => cur_path[c] = PathRoot

\* C8 amended: after successful CWD descents from "/", each by a relative
\* argument of one path component, followed by as many CDUPs, the current
\* path is "/".
C8_OneLevelDownAndUpIsRoot ==
    \A c \in ClientIds :
        (WentDownAndUp(c) /\ nav[c].simple) => cur_path[c] = PathRoot

\* C8 witness: MaxDepth one-component descents ("m:", "a", ..) and as many
\* CDUPs have brought the session back to "/".
C8_Witness_DeepReturn ==
    \E c \in ClientIds :
        /\ WentDownAndUp(c)
        /\ nav[c].simple
        /\ nav[c].downs = MaxDepth
        /\ cur_path[c] = PathRoot

\* C9: the storage rename operation is invoked by an RNTO only when a
\* successful RNFR has staged a source that no RNTO has consumed yet.
C9_RenameOnlyWhenStaged ==
    \A c \in ClientIds :
        (Returned(c) /\ log[c][1] = "RNTO" /\ InLog(c, "rename")) => rnto_staged[c]

\* Session c is in, or has completed, a listing of "/" that emitted entries.
ListedDevices(c) ==
    /\ pc[c] \in {"list_check", "recv"}
    /\ Len(log[c]) > 0
    /\ log[c][1] = "LIST"
    /\ ~InLog(c, "dclose")
    /\ Len(wire[c]) > 0

\* C10: in a listing of "/", the entry emitted for a slot carries the name
\* that was in the slot when its valid flag was examined, and no device name
\* is emitted twice, also with add_device / del_device calls in between.
C10_ListingSeesOneTable ==
    \A c \in ClientIds :
        ListedDevices(c) =>
            /\ wire[c][Len(wire[c])] = list_seen[c]
            /\ \A i, j \in 1..Len(wire[c]) : wire[c][i] = wire[c][j] => i = j

\* C14: the ordinals the accept loop assigns grow strictly: of two accepted
\* sessions the later one has the greater num.
C14_OrdinalsStrictlyIncrease ==
    \A c, d \in ClientIds :
        (c < d /\ cstate[c] # "unused" /\ cstate[d] # "unused") => num[c] < num[d]

\* C15: once ftpvita_fini has closed server_sockfd and waits for the server
\* thread, the socket the accept loop listens on is closed.
C15_FiniClosesListeningSocket ==
    fini_pc = "wait_server" => server_sockfd # "listening"

\* C16: the accept loop has ended only if the listening socket was closed.
C16_AcceptLoopEndsOnlyOnClose ==
    server_thread_pc = "ended" => server_sockfd = "closed"

RECURSIVE Chain(_, _)
\* The sessions a traversal of at most n steps along next finds from it.
Chain(it, n) ==
    IF it = NULL \/ n = 0 THEN {} ELSE {it} \cup Chain(next[it], n - 1)

\* C18: while client_list_thread_end holds the mutex and waits for a session
\* thread, no session it has yet to wait for is blocked on the mutex in
\* client_list_delete.
C18_NoDeleteWhileShutdownWaits ==
    fini_pc = "wait_client" =>
        \A c \in Chain(fini_it, MaxClients) : pc[c] # "delete"

\* The sessions in the registry: those a traversal from client_list finds.
Registry == Chain(client_list, MaxClients)

\* The control loop of session c is running: from the greeting until it has
\* left the loop and, on a peer close or an error, removed itself.
InControlLoop(c) ==
    /\ thread[c] = "running"
    /\ pc[c] \in {"greet", "recv", "list_check", "list_emit", "read_loop", "delete"}

\* C19: a session whose control loop runs is in the registry; one that left
\* the loop on a zero-length read or a non-abort error has removed itself
\* before it releases anything; and whenever the mutex is free number_clients
\* is the number of sessions reachable from client_list and prev/next are
\* the links of one doubly linked list.
C19_RegistryTracksSessions ==
    /\ \A c \in ClientIds : InControlLoop(c) => c \in Registry
    /\ \A c \in ClientIds :
          (n_recv[c] \in {"zero", "error"} /\ pc[c] \in {"close", "free", "done"})
              => c \notin Registry
    /\ client_list_mtx = "free" =>
          /\ number_clients = Cardinality(Registry)
          /\ client_list # NULL => prev[client_list] = NULL
          /\ \A c \in Registry : next[c] # NULL => prev[next[c]] = c
          /\ \A c \in Registry : prev[c] # NULL => next[prev[c]] = c

\* C19 witness: of two registered sessions the one accepted last, the head
\* of the list, has removed itself after its peer closed; the other is still
\* registered and is the head now.
C19_Witness_HeadRemoved ==
    \E c, d \in ClientIds :
        /\ c # d
        /\ num[c] > num[d]
        /\ n_recv[c] = "zero"
        /\ pc[c] = "close"
        /\ InControlLoop(d)
        /\ client_list = d
        /\ number_clients = 1
        /\ client_list_mtx = "free"

\* The descriptors the exit path of client_thread passes to
\* sceNetSocketClose as data sockets.
ExitCloses(c) ==
    IF data_con_type[c] = FTP_DATA_CONNECTION_NONE THEN {}
    ELSE IF data_con_type[c] = FTP_DATA_CONNECTION_PASSIVE
         THEN {data_sockfd[c], pasv_sockfd[c]}
         ELSE {data_sockfd[c]}

\* C20: when a session has left its control loop and is about to close its
\* sockets, the data descriptors it will close are exactly its data sockets
\* that are open: none is left open, none was never opened or is closed
\* already.
C20_ExitClosesExactlyOpenSockets ==
    \A c \in ClientIds : pc[c] = "close" => ExitCloses(c) = OpenDataSockets(c)

\* Session c takes a step of its termination: client_list_delete, the closing
\* of its sockets, or the release of its ClientInfo.
Terminates(c) == pc[c] \in {"delete", "close", "free"} /\ pc'[c] # pc[c]

\* C13: a step of one session's termination leaves every other live session
\* registered if it was, leaves its path, rename source, data connection and
\* open data sockets as they were, and leaves the accept loop running.
C13_TerminationLeavesOthersAlone ==
    [][\A c \in ClientIds :
          Terminates(c) =>
              /\ server_thread_pc' = server_thread_pc
              /\ server_sockfd' = server_sockfd
              /\ \A d \in ClientIds \ {c} :
                    cstate[d] = "live" =>
                        /\ d \in Registry => d \in Registry'
                        /\ cur_path'[d] = cur_path[d]
                        /\ rename_path'[d] = rename_path[d]
                        /\ data_con_type'[d] = data_con_type[d]
                        /\ data_sockfd'[d] = data_sockfd[d]
                        /\ pasv_sockfd'[d] = pasv_sockfd[d]
                        /\ OpenDataSockets(d)' = OpenDataSockets(d)]_vars

\* C17: no storage call is made with the missing path that get_vita_path
\* gives for a virtual path of length <= 1: whatever command a session has
\* answered, its log holds no storage call on a NULL path.
C17_NoStorageCallOnNullPath ==
    \A c \in ClientIds : ~InLog(c, "null_path")

\* Session c is out of the control loop of client_thread.
LeftLoop(c) ==
    pc[c] \notin {"none", "greet", "recv", "list_check", "list_emit", "read_loop"}

\* C12: no command line ends a session: a session is out of its control
\* loop only after a receive that returned zero, the abort of the shutdown,
\* or another error; after a command line was received (n_recv > 0), with
\* whatever reply, the session is still in the loop.
C12_OnlyReceiveEndsSession ==
    \A c \in ClientIds : LeftLoop(c) => n_recv[c] \in {"zero", "eintr", "error"}

\* What cmd_PWD_func sends for the path p.
Quoting(p) == <<"PWD", "257", "\"">> \o p \o <<"\"">>

\* C11, the states of the scenario: nothing is sent and nothing is read
\* before the greeting; the greeting is the first message, and the path is
\* "/" until a command is read; USER is answered 331, PASS 230, and PWD 257
\* quoting the current path.
C11_Replies ==
    \A c \in ClientIds :
        /\ pc[c] = "greet" => log[c] = <<>> /\ n_recv[c] = "none"
        /\ (pc[c] = "recv" /\ n_recv[c] = "none") =>
               log[c] = <<"220">> /\ cur_path[c] = PathRoot
        /\ (log[c] # <<>> /\ log[c][1] = "USER") => log[c] = <<"USER", "331">>
        /\ (log[c] # <<>> /\ log[c][1] = "PASS") => log[c] = <<"PASS", "230">>
        /\ (log[c] # <<>> /\ log[c][1] = "PWD") => log[c] = Quoting(cur_path[c])

\* C11: the session opens as the scenario says: 220 before any command is
\* read, then USER 331, PASS 230, PWD 257 quoting the current path, "/" at
\* first; CWD "m:" at "/" for a device that opens is answered 250 and makes
\* "/m:/" the current path, which the next PWD quotes.
C11_LoginScenario ==
    /\ []C11_Replies
    /\ [][\A c \in ClientIds :
             /\ (cur_path[c] = PathRoot /\ cmd_CWD_func(c, ArgM, TRUE)) =>
                    (log'[c] = <<"CWD", "250">> /\ cur_path'[c] = PathM)
             /\ (cur_path[c] = PathM /\ cmd_PWD_func(c)) =>
                    log'[c] = <<"PWD", "257", "\"", "/", "m", ":", "/", "\"">>]_vars

\* The scenario's last reply: PWD answered with "/m:/" quoted.
C11_Witness_PwdAtDevice ==
    \E c \in ClientIds :
        /\ log[c] = <<"PWD", "257", "\"", "/", "m", ":", "/", "\"">>
        /\ cur_path[c] = PathM
        /\ nav[c].downs = 1

\* The arguments of CWD that name a directory to descend to.
DescentArgs == CwdArgs \ {PathRoot, ArgUp}

\* C21: a CWD whose new path is not "/" and whose directory does not open
\* replies 550 and leaves cur_path as it was; a step that changes cur_path
\* is a CWD answered 250 or a CDUP; and the cur_path of a live session
\* always begins with '/'.
C21_FailedCwdKeepsPath ==
    /\ [](\A c \in ClientIds :
             cstate[c] = "live" => (Len(cur_path[c]) >= 1 /\ cur_path[c][1] = "/"))
    /\ [][\A c \in ClientIds :
             /\ \A a \in DescentArgs :
                   (cwd_tmp_path(cur_path[c], a) # PathRoot /\ cmd_CWD_func(c, a, FALSE)) =>
                       (log'[c] = <<"CWD", "550">> /\ cur_path'[c] = cur_path[c])
             /\ cur_path'[c] # cur_path[c] =>
                   log'[c] \in {<<"CWD", "250">>, <<"CDUP", "200">>}]_vars

\* A CWD failed with 550 in a directory below "/", which is still current.
C21_Witness_FailedBelowRoot ==
    \E c \in ClientIds :
        /\ log[c] = <<"CWD", "550">>
        /\ cur_path[c] = PathM
        /\ nav[c].downs = 1

\* Session c is inside send_LIST or send_file, which use the data connection
\* and, when they end, close it and write data_con_type.
InsideHandler(c) == pc[c] \in {"list_check", "list_emit", "read_loop"}

\* C22: the data connection fields of a session are read by its own thread
\* only: the shutdown's thread reads none of them while the session's thread
\* is inside a handler that uses and modifies them.
C22_OnlyOwnerReadsDataFields ==
    [][client_list_thread_end_abort =>
          \A r \in fini_reads' : ~InsideHandler(r.of)]_vars

\* C23: every descriptor the shutdown hands to sceNetSocketAbort as a data
\* socket of a session is a descriptor that session opened and has not
\* closed; after PASV and before any connection was accepted pasv_sockfd is
\* none.
C23_AbortsOnlyOpenDataSockets ==
    [][client_list_thread_end_abort =>
          \A r \in fini_reads' :
              r.field # "data_con_type" =>
                  (IsOpen(fd_owner, r.fd) /\ fd_owner[r.fd] = r.of)]_vars

\* C24: the streaming loop of RETR ends at the first sceIoRead that returns
\* 0 or an error: after a failed read nothing is sent, the next thing the
\* handler does is to close the file.
C24_ReadErrorEndsStream ==
    \A c \in ClientIds :
        \A i \in 1..Len(log[c]) :
            log[c][i] = "read_error" =>
                (i < Len(log[c]) /\ log[c][i + 1] = "fclose")

\* The slots of table t that are valid, and those of them that hold name n.
ValidSlots(t) == {k \in Slots : t[k].valid = 1}
Mounted(t, n) == {k \in ValidSlots(t) : t[k].name = n}

\* C25: the device table after the last add or del call, against the table
\* the call found: add returns 1 and makes one more slot valid when a slot
\* was free, and returns 0 and changes nothing when none was; del returns 1
\* only when it made invalid a valid slot with that name, and when the name
\* was mounted once no valid slot holds it afterwards.
C25_MountTableConsistent ==
    /\ dev_call.op = "add" =>
          IF ValidSlots(dev_call.was) # Slots
          THEN /\ dev_call.ret = 1
               /\ Cardinality(ValidSlots(device_list)) =
                     Cardinality(ValidSlots(dev_call.was)) + 1
          ELSE /\ dev_call.ret = 0
               /\ device_list = dev_call.was
    /\ (dev_call.op = "del" /\ dev_call.ret = 1) =>
          /\ \E k \in Mounted(dev_call.was, dev_call.name) : device_list[k].valid = 0
          /\ Cardinality(Mounted(dev_call.was, dev_call.name)) = 1 =>
                Mounted(device_list, dev_call.name) = {}

\* The ClientInfo of session c is allocated and its thread has not exited.
Allocated(c) == cstate[c] = "live" /\ thread[c] # "ended"

NoServerThread == server_thread_pc \in {"none", "ended"}

\* C27, the states: ftp_initialized is 1 exactly from a successful
\* ftpvita_init until ftpvita_fini has returned; a failed ftpvita_init
\* leaves the server uninitialised without a server thread; and whenever the
\* server is not initialised there is no accept loop and ftpvita_init can
\* succeed.
C27_Flag ==
    /\ ftp_initialized \in {0, 1}
    /\ ftp_initialized = 1 <=> (init_ret \in {"ok", "already"} /\ fini_pc # "returned")
    /\ init_ret = "net_error" => (ftp_initialized = 0 /\ NoServerThread)
    /\ ftp_initialized = 0 => (NoServerThread /\ ENABLED ftpvita_init)

\* C27: the lifecycle of the server.  Besides the states of C27_Flag: a
\* ftpvita_init that returns -1 and a ftpvita_fini on an uninitialised
\* server change nothing of the server, and a ftpvita_init that succeeds
\* finds no accept-loop thread and starts one, so there is never more than
\* one.
C27_ServerLifecycle ==
    /\ []C27_Flag
    /\ [][/\ (ftpvita_init_initialized \/ ftpvita_fini_uninitialized) =>
                UNCHANGED <<ftp_initialized, server_thread_pc, server_sockfd,
                            client_list_mtx, client_list, number_clients, regVars>>
          /\ ftpvita_init => (NoServerThread /\ server_thread_pc' = "setup")]_vars

\* C27 witness: the server runs for the second time: a session of the first
\* run was aborted by ftpvita_fini, and after a new ftpvita_init the accept
\* loop is up again.
C27_Witness_SecondRun ==
    /\ ftp_initialized = 1
    /\ init_ret = "ok"
    /\ fini_pc = "idle"
    /\ server_thread_pc = "accept"
    /\ \E c \in ClientIds : n_recv[c] = "eintr" /\ cstate[c] = "freed"

====
